---- MODULE Spec2Model ----
(***************************************************************************)
(* Virtual-time scheduling of ruscello's testing module: TestSchedule      *)
(* (invocation, flush, reset, getActionInsertIndex), TestSource,           *)
(* SharedTestSource, watchSourceEvents and the Disposable subscriptions    *)
(* they cancel through.                                                    *)
(*                                                                         *)
(* Execution is single threaded.  A flush() runs user callbacks, and a     *)
(* callback is arbitrary code that may call back into the schedule, so a   *)
(* flush is modelled as a stack of activations: one record per flush()     *)
(* invocation that has not returned yet, each either about to shift the    *)
(* next action ("shift") or inside the callback of one ("cb").             *)
(***************************************************************************)
EXTENDS Integers, Sequences, FiniteSets

\* ---------------------------------------------------------------- bounds
\* Closures handed to the schedule over a whole run (each gets an identity).
MaxActions == 3
\* Largest delayFrames a caller passes.
MaxDelay == 1

Delays == 0 .. MaxDelay

\* The Disposables of the run.  A Sink is itself the Disposable it is bound to.
Disposables == {"d1", "d2"}
NoSub == "none"
\* The subscription argument of the schedule calls user code makes itself.
Subscriptions == {"d1", NoSub}

\* The Disposable watchSourceEvents creates for its own subscription.
Watcher == "w"
AllDisposables == Disposables \cup {Watcher}

\* Number.POSITIVE_INFINITY of TestSubscriptionInfo.subscriptionEndFrame.
Infinity == 1000

\* Number addition, where Infinity plus a finite number is Infinity.
Plus(a, b) == IF a >= Infinity \/ b >= Infinity THEN Infinity ELSE a + b

\* The timelines a TestSource is constructed with: P(1, 1), E(1) (two events
\* sharing a frame) and P(1, 1), E(0) (declared out of frame order).
Timelines ==
    { << [type |-> "Push", value |-> 1, frame |-> 1],
         [type |-> "End", value |-> 0, frame |-> 1] >>,
      << [type |-> "Push", value |-> 1, frame |-> 1],
         [type |-> "End", value |-> 0, frame |-> 0] >> }

\* Scenario B: P(1, 0), P(2, 10), E(20).
ScenarioB ==
    << [type |-> "Push", value |-> 1, frame |-> 0],
       [type |-> "Push", value |-> 2, frame |-> 10],
       [type |-> "End", value |-> 0, frame |-> 20] >>

\* The timelines of the TestSource that watchSourceEvents watches.
WatchTimelines == Timelines \cup {ScenarioB}

\* The subscriptionInfo argument of watchSourceEvents: TestSubscriptionInfo(0, 25),
\* TestSubscriptionInfo(1, 2), TestSubscriptionInfo(1, 1), or none.
WatchArgs ==
    { [omitted |-> FALSE, subscriptionStartFrame |-> 0, subscriptionEndFrame |-> 25],
      [omitted |-> FALSE, subscriptionStartFrame |-> 1, subscriptionEndFrame |-> 2],
      [omitted |-> FALSE, subscriptionStartFrame |-> 1, subscriptionEndFrame |-> 1],
      [omitted |-> TRUE, subscriptionStartFrame |-> 0, subscriptionEndFrame |-> 0] }

VARIABLES
    actions,        \* TestSchedule: the queue of TestScheduleAction
    currentFrame,   \* TestSchedule: currentFrame
    isFlushing,     \* TestSchedule: the re-entrancy guard
    stack,          \* flush() invocations that have not returned, outermost first
    disp,           \* Disposable -> [active, teardowns]
    events,         \* TestSource: the declared timeline
    subscriptions,  \* TestSource: the TestSubscriptionInfo list
    nextId,         \* identity given to the next closure handed to the schedule
    fate,           \* history: what became of each closure handed to the schedule:
                    \* "none", "refused", "queued", then "skipped", "invoked",
                    \* "delivered", "ignored" (shifted) or "dropped" (reset)
    last,           \* history: the action shifted last since the last reset()
    prev,           \* history: the action invoked before `last' since the last reset()
    cancelled,      \* history: actions whose subscription was disposed while queued
    subscribed,     \* history: sink, frame and first closure of each subscription
                    \* to the source, and the closures invoked before it
    lastFlush,      \* outcome of the flush() call that completed last
    subject,        \* SharedTestSource: the sinks registered with its Subject
    recorded,       \* watchSourceEvents: the list of events it returns
    received,       \* history: sink -> the events its callback was run with
    played,         \* history: first closure of each schedule() call, and the
                    \* subscribers the SharedTestSource had then
    watching,       \* history: the watchSourceEvents call made, if any
    log             \* history: what the named callbacks of a test and the
                    \* calls that register them did, in order

vars == << actions, currentFrame, isFlushing, stack, disp, events,
           subscriptions, nextId, fate, last, prev, cancelled, subscribed,
           lastFlush, subject, recorded, received, played, watching, log >>

\* What the schedule itself never touches.
sources == << subject, recorded, received, played, watching, log >>

\* ------------------------------------------------------------- helpers
Top == stack[Len(stack)]

\* User code is running: the test body itself, or the callback of an action.
CanAct == IF stack = << >> THEN TRUE ELSE Top.pc = "cb"

SetTop(rec) == [stack EXCEPT ![Len(stack)] = rec]

UserCallback == [kind |-> "user", sink |-> NoSub, ev |-> 0]

\* A callback of a test that notes its call and returns: cb1, cb2, cb3.
Named == {"cb1", "cb2", "cb3"}

NamedCallback(name) == [kind |-> "named", sink |-> NoSub, ev |-> name]

\* actions.push(action) in place of the splice at the insert index.
AppendTo(q, index, x) == Append(q, x)

InsertAt(q, index, x) == SubSeq(q, 1, index) \o << x >> \o SubSeq(q, index + 1, Len(q))

\* ------------------------------------------------ getActionInsertIndex
\* A walk that takes one step along a run of equal frames and stops.
WalkOnce(q, frame, mid) ==
    IF mid + 1 < Len(q) /\ q[mid + 2].executionFrame = frame THEN mid + 1
    ELSE mid

RECURSIVE WalkEqual(_, _, _)
WalkEqual(q, frame, mid) ==
    IF mid + 1 < Len(q) /\ q[mid + 2].executionFrame = frame
    THEN WalkEqual(q, frame, mid + 1)
    ELSE mid

SearchEnd(q, low, high) ==
    IF high < 0 THEN 0
    ELSE IF low > Len(q) - 1 THEN Len(q)
    ELSE IF low < high THEN low + 1 ELSE high + 1

RECURSIVE Search(_, _, _, _)
Search(q, frame, low, high) ==
    IF low <= high
    THEN LET mid == (low + high) \div 2
             executionFrame == q[mid + 1].executionFrame
         IN  IF executionFrame < frame THEN Search(q, frame, mid + 1, high)
             ELSE IF executionFrame > frame THEN Search(q, frame, low, mid - 1)
             ELSE WalkEqual(q, frame, mid) + 1
    ELSE SearchEnd(q, low, high)

\* The search without the walk to the end of a run of equal frames.
RECURSIVE SearchNoWalk(_, _, _, _)
SearchNoWalk(q, frame, low, high) ==
    IF low <= high
    THEN LET mid == (low + high) \div 2
             executionFrame == q[mid + 1].executionFrame
         IN  IF executionFrame < frame THEN SearchNoWalk(q, frame, mid + 1, high)
             ELSE IF executionFrame > frame THEN SearchNoWalk(q, frame, low, mid - 1)
             ELSE mid + 1
    ELSE SearchEnd(q, low, high)

InsertIndexNoWalk(q, frame) == SearchNoWalk(q, frame, 0, Len(q) - 1)

getActionInsertIndex(q, frame) == Search(q, frame, 0, Len(q) - 1)

\* ---------------------------------------------------------- Disposable
\* The teardown the schedule registers: action.shouldCall = false.  The
\* action is reached by reference, so it is found wherever it sits in the
\* queue; on an action already shifted the write has no effect.
CancelNothing(q, id) == q

CancelEvery(q, id) == [i \in 1 .. Len(q) |-> [q[i] EXCEPT !.shouldCall = FALSE]]

\* A cancellation that takes the action out of the queue.
CancelRemoves(q, id) == SelectSeq(q, LAMBDA a : a.id # id)

CancelAction(q, id) ==
    [i \in 1 .. Len(q) |->
        IF q[i].id = id THEN [q[i] EXCEPT !.shouldCall = FALSE] ELSE q[i]]

\* The teardown watchSubscriptionInfo registers.
EndNothing(subs, index, frame) == subs

EndSubscription(subs, index, frame) ==
    [subs EXCEPT ![index].subscriptionEndFrame = frame]

\* The teardown a Subject registers on a sink it accepts: the sink leaves
\* the list of subscribers.
UnsubscribeNothing(sinks, sink) == sinks

\* A removal that empties the list of subscribers.
UnsubscribeAll(sinks, sink) == << >>

Unsubscribe(sinks, sink) == SelectSeq(sinks, LAMBDA s : s # sink)

\* The teardowns of a Disposable run in the order added, at frame `frame', on
\* w = [q, subs, subject].
RECURSIVE RunTeardowns(_, _, _)
RunTeardowns(tds, w, frame) ==
    IF tds = << >> THEN w
    ELSE LET td == Head(tds)
         IN  RunTeardowns(Tail(tds),
                 CASE td.kind = "cancel" ->
                          [w EXCEPT !.q = CancelAction(w.q, td.ref)]
                   [] td.kind = "end" ->
                          [w EXCEPT !.subs = EndSubscription(w.subs, td.ref, frame)]
                   [] td.kind = "unsubscribe" ->
                          [w EXCEPT !.subject = Unsubscribe(w.subject, td.ref)],
                 frame)

\* disposable.add(child) on an active Disposable.
AddTeardown(d, sub, td) ==
    IF sub = NoSub THEN d
    ELSE [d EXCEPT ![sub].teardowns = Append(@, td)]

\* --------------------------------------------------------- TestSchedule
\* An executionFrame that is delayFrames, whatever currentFrame is.
ScheduleAbsolute(q, frame, id, cb, delayFrames) ==
    LET index == getActionInsertIndex(q, delayFrames)
        action == [id |-> id, callback |-> cb,
                   executionFrame |-> delayFrames, shouldCall |-> TRUE]
    IN  InsertAt(q, index, action)

\* An insertion before the queued actions of the same frame.
ScheduleBeforeEqual(q, frame, id, cb, delayFrames) ==
    LET executionFrame == Plus(frame, delayFrames)
        index == Cardinality({ i \in 1 .. Len(q) :
                                 q[i].executionFrame < executionFrame })
        action == [id |-> id, callback |-> cb,
                   executionFrame |-> executionFrame, shouldCall |-> TRUE]
    IN  InsertAt(q, index, action)

\* One invocation testSchedule(callback, delayFrames, subscription) made at
\* frame `frame' on queue q: the queue it leaves.
ScheduleInto(q, frame, id, cb, delayFrames) ==
    LET executionFrame == Plus(frame, delayFrames)
        index == getActionInsertIndex(q, executionFrame)
        action == [id |-> id, callback |-> cb,
                   executionFrame |-> executionFrame, shouldCall |-> TRUE]
    IN  InsertAt(q, index, action)

\* subscription?.active === false
RefusedNever(d, sub) == FALSE

Refused(d, sub) == IF sub = NoSub THEN FALSE ELSE ~d[sub].active

\* testSchedule(callback, delayFrames, subscription) on the state
\* st = [q, disp, fate, nextId] at frame `frame'.
testSchedule(st, frame, cb, delayFrames, sub) ==
    LET id == st.nextId
    IN  IF Refused(st.disp, sub)
        THEN [st EXCEPT !.nextId = id + 1, !.fate[id] = "refused"]
        ELSE [q |-> ScheduleInto(st.q, frame, id, cb, delayFrames),
              disp |-> AddTeardown(st.disp, sub, [kind |-> "cancel", ref |-> id]),
              fate |-> [st.fate EXCEPT ![id] = "queued"],
              nextId |-> id + 1]

Now == [q |-> actions, disp |-> disp, fate |-> fate, nextId |-> nextId]

Becomes(st) ==
    /\ actions' = st.q
    /\ disp' = st.disp
    /\ fate' = st.fate
    /\ nextId' = st.nextId

\* The closures the run still has identities for: the subscription a queued
\* watchSourceEvents is going to make keeps those of its timeline.
Capacity ==
    IF \E i \in 1 .. Len(actions) : actions[i].callback.kind = "watchStart"
    THEN Len(fate) - Len(events)
    ELSE Len(fate)

\* User code calls the schedule with a callback of its own.
Schedule(delayFrames, sub) ==
    /\ CanAct
    /\ nextId <= Capacity
    /\ Becomes(testSchedule(Now, currentFrame, UserCallback, delayFrames, sub))
    /\ UNCHANGED << currentFrame, isFlushing, stack, events, subscriptions,
                    last, prev, cancelled, subscribed, lastFlush >>
    /\ UNCHANGED sources

\* The delays of scenario A.
ScenarioDelays == {2, 5}

\* The test body schedules one of its named callbacks, each once.
ScheduleNamed(name, delayFrames) ==
    /\ stack = << >>
    /\ nextId <= Capacity
    /\ \A i \in 1 .. Len(log) : log[i].what # name
    /\ Becomes(testSchedule(Now, currentFrame, NamedCallback(name),
                            delayFrames, NoSub))
    /\ log' = Append(log, [op |-> "schedule", what |-> name, at |-> delayFrames])
    /\ UNCHANGED << currentFrame, isFlushing, stack, events, subscriptions,
                    last, prev, cancelled, subscribed, lastFlush, subject,
                    recorded, received, played, watching >>

\* if (isFlushing) return;
GuardNever == FALSE

Guarded == isFlushing

\* A flush() that has just entered its loop.  While a callback pushes an
\* event into the Subject, ev is that event and rest the subscribers the
\* push has still to forward it to.
Activation == [pc |-> "shift", id |-> 0, reset |-> FALSE, ev |-> 0, rest |-> << >>]

\* flush() called while the guard is set.
FlushNested ==
    /\ CanAct
    /\ Guarded
    /\ lastFlush' = "nested"
    /\ UNCHANGED << actions, currentFrame, isFlushing, stack, disp, events,
                    subscriptions, nextId, fate, last, prev, cancelled,
                    subscribed >>
    /\ UNCHANGED sources

\* flush() called while the guard is clear: the guard is set and the loop entered.
FlushEnter ==
    /\ CanAct
    /\ ~Guarded
    /\ isFlushing' = TRUE
    /\ stack' = Append(stack, Activation)
    /\ UNCHANGED << actions, currentFrame, disp, events, subscriptions,
                    nextId, fate, last, prev, cancelled, subscribed,
                    lastFlush >>
    /\ UNCHANGED sources

flush == FlushNested \/ FlushEnter

\* ----------------------------------------------------------- TestSource
\* watchSubscriptionInfo(testSchedule, sink) called at frame `frame': the
\* info pushed and the teardown that fixes its end frame (run at once on an
\* inactive sink).
watchSubscriptionInfo(subs, d, sink, frame) ==
    LET info == [subscriptionStartFrame |-> frame,
                 subscriptionEndFrame |-> Infinity]
        index == Len(subs) + 1
    IN  IF d[sink].active
        THEN [subs |-> Append(subs, info),
              disp |-> AddTeardown(d, sink, [kind |-> "end", ref |-> index])]
        ELSE [subs |-> Append(subs, [info EXCEPT !.subscriptionEndFrame = frame]),
              disp |-> d]

\* The delay an event of the timeline is scheduled with: event.frame.
EventDelayZero(k) == 0

EventDelay(k) == events[k].frame

\* events.forEach((event) => testSchedule(() => sink(event), event.frame, sink))
RECURSIVE ScheduleEvents(_, _, _, _)
ScheduleEvents(st, frame, sink, k) ==
    IF k > Len(events) THEN st
    ELSE ScheduleEvents(
             testSchedule(st, frame,
                          [kind |-> "emit", sink |-> sink, ev |-> k],
                          EventDelay(k), sink),
             frame, sink, k + 1)

\* Everything a call into the library may change, as one record.
World ==
    [q |-> actions, disp |-> disp, fate |-> fate, nextId |-> nextId,
     subs |-> subscriptions, subscribed |-> subscribed, subject |-> subject]

Follows(w) ==
    /\ actions' = w.q
    /\ disp' = w.disp
    /\ fate' = w.fate
    /\ nextId' = w.nextId
    /\ subscriptions' = w.subs
    /\ subscribed' = w.subscribed
    /\ subject' = w.subject

\* The closures invoked so far that were no deliveries to one sink.
Pushed(w) == { id \in DOMAIN w.fate : w.fate[id] = "invoked" }

\* The TestSource called with `sink' at frame `frame'.
sourceSubscribe(w, frame, sink) ==
    LET watched == watchSubscriptionInfo(w.subs, w.disp, sink, frame)
        st == ScheduleEvents([q |-> w.q, disp |-> watched.disp,
                              fate |-> w.fate, nextId |-> w.nextId],
                             frame, sink, 1)
    IN  [w EXCEPT !.q = st.q, !.disp = st.disp, !.fate = st.fate,
                  !.nextId = st.nextId, !.subs = watched.subs,
                  !.subscribed = Append(@, [sink |-> sink, first |-> w.nextId,
                                            frame |-> frame,
                                            past |-> Pushed(w)])]

\* User code subscribes `sink' to the TestSource.
Subscribe(sink) ==
    /\ CanAct
    /\ nextId + Len(events) - 1 <= Capacity
    /\ Follows(sourceSubscribe(World, currentFrame, sink))
    /\ UNCHANGED << currentFrame, isFlushing, stack, events, last, prev,
                    cancelled, lastFlush, recorded, received, played,
                    watching, log >>

\* ----------------------------------------------------- SharedTestSource
\* subject(sink): the Subject takes an active sink into its list of
\* subscribers and registers the removal on the Disposable of the sink.
subjectSubscribe(w, sink) ==
    IF ~w.disp[sink].active THEN w
    ELSE [w EXCEPT !.subject = Append(@, sink),
                   !.disp = AddTeardown(@, sink,
                                [kind |-> "unsubscribe", ref |-> sink])]

\* A subscription that replays the timeline as the TestSource does.
subscribeAndPlay(w, frame, sink) == sourceSubscribe(w, frame, sink)

\* The SharedTestSource called with `sink' at frame `frame'.
sharedSubscribe(w, frame, sink) ==
    LET watched == watchSubscriptionInfo(w.subs, w.disp, sink, frame)
    IN  subjectSubscribe(
            [w EXCEPT !.subs = watched.subs, !.disp = watched.disp,
                      !.subscribed = Append(@, [sink |-> sink, first |-> w.nextId,
                                                frame |-> frame,
                                                past |-> Pushed(w)])],
            sink)

\* User code subscribes `sink' to the SharedTestSource.  Each Disposable of
\* the run carries one Sink.
SharedSubscribe(sink) ==
    /\ CanAct
    /\ \A n \in 1 .. Len(subscribed) : subscribed[n].sink # sink
    /\ Follows(sharedSubscribe(World, currentFrame, sink))
    /\ UNCHANGED << currentFrame, isFlushing, stack, events, last, prev,
                    cancelled, lastFlush, recorded, received, played,
                    watching, log >>

\* One playback for each subscriber the Subject has.
RECURSIVE PushesPerSubscriber(_, _, _, _)
PushesPerSubscriber(st, frame, sub, k) ==
    IF k > Len(events) * Len(subject) THEN st
    ELSE PushesPerSubscriber(
             testSchedule(st, frame,
                          [kind |-> "push", sink |-> NoSub,
                           ev |-> ((k - 1) % Len(events)) + 1],
                          EventDelay(((k - 1) % Len(events)) + 1), sub),
             frame, sub, k + 1)

\* The pushes scheduled without the subscription.
RECURSIVE PushesUnbound(_, _, _, _)
PushesUnbound(st, frame, sub, k) ==
    IF k > Len(events) THEN st
    ELSE PushesUnbound(
             testSchedule(st, frame,
                          [kind |-> "push", sink |-> NoSub, ev |-> k],
                          EventDelay(k), NoSub),
             frame, sub, k + 1)

\* events.forEach((event) => testSchedule(() => subject(event), event.frame, subscription))
RECURSIVE SchedulePushes(_, _, _, _)
SchedulePushes(st, frame, sub, k) ==
    IF k > Len(events) THEN st
    ELSE SchedulePushes(
             testSchedule(st, frame,
                          [kind |-> "push", sink |-> NoSub, ev |-> k],
                          EventDelay(k), sub),
             frame, sub, k + 1)

\* User code calls schedule(subscription?) on the SharedTestSource.
SharedSchedule(sub) ==
    /\ CanAct
    /\ nextId + Len(events) - 1 <= Capacity
    /\ Becomes(SchedulePushes(Now, currentFrame, sub, 1))
    /\ played' = Append(played, [first |-> nextId, subscribers |-> subject,
                                  sub |-> sub, frame |-> currentFrame])
    /\ UNCHANGED << currentFrame, isFlushing, stack, events, subscriptions,
                    last, prev, cancelled, subscribed, lastFlush, subject,
                    recorded, received, watching, log >>

\* ---------------------------------------------------- watchSourceEvents
\* subscriptionInfo, by default watchSubscriptionInfo(testSchedule): the info
\* of a subscription that starts at the current frame and has not ended.
InfoOf(arg, frame) ==
    IF arg.omitted
    THEN [subscriptionStartFrame |-> frame, subscriptionEndFrame |-> Infinity]
    ELSE [subscriptionStartFrame |-> arg.subscriptionStartFrame,
          subscriptionEndFrame |-> arg.subscriptionEndFrame]

\* The delayFrames the two closures of watchSourceEvents are scheduled with.
StartNow(info) == 0

StartDelay(info) == info.subscriptionStartFrame

EndDelayZero(info) == 0

EndDelay(info) == info.subscriptionEndFrame

\* watchSourceEvents(source, testSchedule, info) called at frame `frame'.
watchSourceEvents(st, frame, info) ==
    testSchedule(
        testSchedule(st, frame,
                     [kind |-> "watchStart", sink |-> Watcher, ev |-> 0],
                     StartDelay(info), NoSub),
        frame,
        [kind |-> "watchEnd", sink |-> Watcher, ev |-> 0],
        EndDelay(info), NoSub)

\* User code calls watchSourceEvents on the TestSource, once in a run.
Watch(arg) ==
    /\ CanAct
    /\ watching = << >>
    /\ nextId + 1 + Len(events) <= Capacity
    /\ Becomes(watchSourceEvents(Now, currentFrame, InfoOf(arg, currentFrame)))
    /\ watching' = << [first |-> nextId, frame |-> currentFrame, arg |-> arg] >>
    /\ UNCHANGED << currentFrame, isFlushing, stack, events, subscriptions,
                    last, prev, cancelled, subscribed, lastFlush, subject,
                    recorded, received, played, log >>

\* ----------------------------------------------------- Disposable.dispose
\* A Disposable after dispose().
Disposed == [active |-> FALSE, teardowns |-> << >>]

\* The queued actions a disposal of d cancels.
Cancels(d) ==
    { actions[i].id : i \in 1 .. Len(actions) } \cap
    { disp[d].teardowns[i].ref :
          i \in { j \in 1 .. Len(disp[d].teardowns) :
                      disp[d].teardowns[j].kind = "cancel" } }

\* d.dispose() at frame `frame': the teardowns in the order added, then
\* active = false.  On an inactive Disposable it does nothing.
dispose(w, frame, d) ==
    IF ~w.disp[d].active THEN w
    ELSE [RunTeardowns(w.disp[d].teardowns, w, frame) EXCEPT !.disp[d] = Disposed]

\* User code disposes d.
Dispose(d) ==
    /\ CanAct
    /\ disp[d].active
    /\ Follows(dispose(World, currentFrame, d))
    /\ cancelled' = cancelled \cup Cancels(d)
    /\ UNCHANGED << currentFrame, isFlushing, stack, events, last, prev,
                    lastFlush, recorded, received, played, watching, log >>

\* ------------------------------------------------------- Disposable tree
\* Disposables whose teardowns are callbacks of the user (t1, t2, t3) and
\* nested Disposables.  A teardown callback is code of the user: while it
\* runs it may add to and dispose any Disposable.  One record of the stack
\* stands for each dispose() that has not returned: `of' is the Disposable,
\* i the place in its list of the entry to take next, pc "teardown" between
\* two entries and "cb" while a teardown callback runs.  A callback that
\* add() runs at once on an inactive Disposable has a record with of = NoSub.
Teardowns == {"t1", "t2", "t3"}

\* A dispose() of d is in progress.
DisposingNever(d) == FALSE

Disposing(d) == \E k \in 1 .. Len(stack) : stack[k].of = d

\* dispose() has nothing to do: d is inactive, or its disposal is in progress.
NothingWhileDisposing(d) == Disposing(d)

NothingToDispose(d) == ~disp[d].active \/ Disposing(d)

\* add(child) stores the child: the Disposable is active.
StoresAlways(d) == TRUE

Stores(d) == disp[d].active

\* The entry a disposal takes at its i-th turn: the entries in the order added.
LastFirst(tds, i) == tds[Len(tds) - i + 1]

NextEntry(tds, i) == tds[i]

Noted(op, what, at) == [op |-> op, what |-> what, at |-> at]

\* A dispose() call that returns at once is noted the first time.
Again(d) ==
    IF \E i \in 1 .. Len(log) : log[i].op = "again" THEN log
    ELSE Append(log, Noted("again", d, d))

\* User code calls d.dispose().
DisposeCall(d) ==
    /\ CanAct
    /\ IF NothingToDispose(d)
       THEN /\ log' = Again(d)
            /\ stack' = stack
       ELSE /\ log' = Append(log, Noted("dispose", d, d))
            /\ stack' = Append(stack, [pc |-> "teardown", of |-> d, i |-> 1])
    /\ UNCHANGED << actions, currentFrame, isFlushing, disp, events,
                    subscriptions, nextId, fate, last, prev, cancelled,
                    subscribed, lastFlush, subject, recorded, received,
                    played, watching >>

\* The disposal on top takes a teardown callback and runs it.
TeardownRun ==
    /\ stack # << >>
    /\ Top.pc = "teardown"
    /\ Top.i <= Len(disp[Top.of].teardowns)
    /\ LET td == NextEntry(disp[Top.of].teardowns, Top.i)
       IN  /\ td.kind = "callback"
           /\ log' = Append(log, Noted("run", td.ref, Top.of))
           /\ stack' = SetTop([Top EXCEPT !.pc = "cb", !.i = @ + 1])
    /\ UNCHANGED << actions, currentFrame, isFlushing, disp, events,
                    subscriptions, nextId, fate, last, prev, cancelled,
                    subscribed, lastFlush, subject, recorded, received,
                    played, watching >>

\* The disposal on top takes a nested Disposable and disposes it.
ChildDispose ==
    /\ stack # << >>
    /\ Top.pc = "teardown"
    /\ Top.i <= Len(disp[Top.of].teardowns)
    /\ LET td == NextEntry(disp[Top.of].teardowns, Top.i)
           passed == SetTop([Top EXCEPT !.i = @ + 1])
       IN  /\ td.kind = "child"
           /\ log' = Append(log, Noted("child", td.ref, Top.of))
           /\ stack' = IF NothingToDispose(td.ref) THEN passed
                       ELSE Append(passed, [pc |-> "teardown", of |-> td.ref,
                                            i |-> 1])
    /\ UNCHANGED << actions, currentFrame, isFlushing, disp, events,
                    subscriptions, nextId, fate, last, prev, cancelled,
                    subscribed, lastFlush, subject, recorded, received,
                    played, watching >>

\* No entry is left: active = false, and dispose() returns.
DisposeDone ==
    /\ stack # << >>
    /\ Top.pc = "teardown"
    /\ Top.i > Len(disp[Top.of].teardowns)
    /\ disp' = [disp EXCEPT ![Top.of] = Disposed]
    /\ log' = Append(log, Noted("inactive", Top.of, Top.of))
    /\ stack' = SubSeq(stack, 1, Len(stack) - 1)
    /\ UNCHANGED << actions, currentFrame, isFlushing, events, subscriptions,
                    nextId, fate, last, prev, cancelled, subscribed,
                    lastFlush, subject, recorded, received, played,
                    watching >>

\* The running teardown callback returns.
TeardownReturn ==
    /\ stack # << >>
    /\ Top.pc = "cb"
    /\ stack' = IF Top.of = NoSub THEN SubSeq(stack, 1, Len(stack) - 1)
                ELSE SetTop([Top EXCEPT !.pc = "teardown"])
    /\ UNCHANGED << actions, currentFrame, isFlushing, disp, events,
                    subscriptions, nextId, fate, last, prev, cancelled,
                    subscribed, lastFlush, subject, recorded, received,
                    played, watching, log >>

\* The teardown was handed to add() before.
Added(what, at) ==
    \E i \in 1 .. Len(log) :
        log[i].op \in {"add", "late"} /\ log[i].what = what /\ log[i].at = at

\* The callbacks are told apart by the order in which they are handed over.
Earlier(name) ==
    CASE name = "t1" -> {}
      [] name = "t2" -> {"t1"}
      [] OTHER -> {"t1", "t2"}

\* User code calls d.add(callback), each callback once in a run.
AddCallback(d, name) ==
    /\ CanAct
    /\ \A at \in Disposables : ~Added(name, at)
    /\ \A other \in Earlier(name) : \E at \in Disposables : Added(other, at)
    /\ IF Stores(d)
       THEN /\ disp' = AddTeardown(disp, d, [kind |-> "callback", ref |-> name])
            /\ log' = Append(log, Noted("add", name, d))
            /\ stack' = stack
       ELSE /\ disp' = disp
            /\ log' = log \o << Noted("late", name, d), Noted("run", name, d) >>
            /\ stack' = Append(stack, [pc |-> "cb", of |-> NoSub, i |-> 0])
    /\ UNCHANGED << actions, currentFrame, isFlushing, events, subscriptions,
                    nextId, fate, last, prev, cancelled, subscribed,
                    lastFlush, subject, recorded, received, played,
                    watching >>

\* User code calls d.add(child) with a Disposable, once: the Disposables
\* form a tree, d1 above d2.
AddChild(d, child) ==
    /\ CanAct
    /\ d = "d1" /\ child = "d2"
    /\ ~Added(child, d)
    /\ IF Stores(d)
       THEN /\ disp' = AddTeardown(disp, d, [kind |-> "child", ref |-> child])
            /\ log' = Append(log, Noted("add", child, d))
            /\ stack' = stack
       ELSE /\ disp' = disp
            /\ log' = Append(log, Noted("late", child, d))
            /\ stack' = IF NothingToDispose(child) THEN stack
                        ELSE Append(stack, [pc |-> "teardown", of |-> child,
                                            i |-> 1])
    /\ UNCHANGED << actions, currentFrame, isFlushing, events, subscriptions,
                    nextId, fate, last, prev, cancelled, subscribed,
                    lastFlush, subject, recorded, received, played,
                    watching >>

\* ---------------------------------------------------------------- flush
\* The callback of a shifted action is invoked only if shouldCall is still true.
InvokesAlways(action) == TRUE

\* The test of shouldCall the wrong way round.
InvokesCancelled(action) == ~action.shouldCall

Invokes(action) == action.shouldCall

\* currentFrame = action.executionFrame, before shouldCall is looked at.
FrameIfCalled(action) ==
    IF action.shouldCall THEN action.executionFrame ELSE currentFrame

FrameAfterShift(action) == action.executionFrame

\* sink(event): a Sink forwards to its callback only while its Disposable is active.
Forwards(action) ==
    IF action.callback.kind = "emit" THEN disp[action.callback.sink].active ELSE TRUE

Outcome(action) ==
    IF ~Invokes(action) THEN "skipped"
    ELSE IF action.callback.kind # "emit" THEN "invoked"
    ELSE IF Forwards(action) THEN "delivered" ELSE "ignored"

None == [id |-> 0, frame |-> 0, called |-> FALSE]

\* A Subject that forwards to the subscriber it took first only.
FirstTarget(action) ==
    CASE action.callback.kind = "emit" -> << action.callback.sink >>
      [] action.callback.kind = "push" ->
             IF subject = << >> THEN << >> ELSE << subject[1] >>
      [] OTHER -> << >>

\* The sinks the callback of an action hands its event to: the sink of the
\* subscription for () => sink(event), the subscribers the Subject has at
\* the start of the push for () => subject(event).
Targets(action) ==
    CASE action.callback.kind = "emit" -> << action.callback.sink >>
      [] action.callback.kind = "push" -> subject
      [] OTHER -> << >>

\* Sinks that forward whatever their Disposable says.
NextAny(sinks) == IF sinks = << >> THEN 0 ELSE 1

\* The first of `sinks' that still forwards (its Disposable is active), 0 if none.
NextActive(sinks) ==
    IF \E i \in 1 .. Len(sinks) : disp[sinks[i]].active
    THEN CHOOSE i \in 1 .. Len(sinks) :
             /\ disp[sinks[i]].active
             /\ \A j \in 1 .. i - 1 : ~disp[sinks[j]].active
    ELSE 0

\* What the sink of watchSourceEvents appends: { ...event, frame: currentFrame }.
RecordedAsDeclared(event, frame) == event

Recorded(event, frame) == [event EXCEPT !.frame = frame]

\* What the library code of the callback of `action' does when invoked at
\* frame `frame', before any callback of the user runs.
Invoked(w, action, frame) ==
    CASE action.callback.kind = "watchStart" -> sourceSubscribe(w, frame, Watcher)
      [] action.callback.kind = "watchEnd" -> dispose(w, frame, Watcher)
      [] OTHER -> w

\* One turn of the loop of flush(): actions.shift(), currentFrame, callback().
FlushShift ==
    /\ stack # << >>
    /\ Top.pc = "shift"
    /\ actions # << >>
    /\ LET action == Head(actions)
           frame == FrameAfterShift(action)
           targets == IF Invokes(action) THEN Targets(action) ELSE << >>
           i == NextActive(targets)
           shifted == [World EXCEPT !.q = Tail(actions),
                                    !.fate[action.id] = Outcome(action)]
       IN  /\ currentFrame' = frame
           /\ last' = [id |-> action.id, frame |-> action.executionFrame,
                       called |-> Invokes(action)]
           /\ prev' = IF last.called THEN last ELSE prev
           /\ Follows(IF Invokes(action) THEN Invoked(shifted, action, frame)
                      ELSE shifted)
           /\ cancelled' = IF Invokes(action) /\ action.callback.kind = "watchEnd"
                           THEN cancelled \cup Cancels(Watcher)
                           ELSE cancelled
           /\ recorded' = IF i > 0 /\ targets[i] = Watcher
                          THEN Append(recorded,
                                   Recorded(events[action.callback.ev], frame))
                          ELSE recorded
           /\ received' = IF i > 0 /\ targets[i] # Watcher
                          THEN [received EXCEPT ![targets[i]] =
                                   Append(@, [id |-> action.id,
                                              ev |-> action.callback.ev,
                                              frame |-> frame])]
                          ELSE received
           /\ log' = IF Invokes(action) /\ action.callback.kind = "named"
                      THEN Append(log, [op |-> "call", what |-> action.callback.ev,
                                        at |-> frame])
                      ELSE log
           /\ stack' = IF i > 0 /\ targets[i] # Watcher
                       THEN SetTop([Top EXCEPT
                                !.pc = "cb", !.id = action.id,
                                !.ev = action.callback.ev,
                                !.rest = SubSeq(targets, i + 1, Len(targets))])
                       ELSE IF Invokes(action) /\ action.callback.kind = "user"
                       THEN SetTop([Top EXCEPT !.pc = "cb", !.id = action.id])
                       ELSE stack
    /\ UNCHANGED << isFlushing, events, lastFlush, played, watching >>

\* The queue is empty: the loop ends, the guard is cleared, flush() returns.
FlushReturn ==
    /\ stack # << >>
    /\ Top.pc = "shift"
    /\ actions = << >>
    /\ isFlushing' = FALSE
    /\ stack' = SubSeq(stack, 1, Len(stack) - 1)
    /\ lastFlush' = IF Top.reset THEN "returned after reset" ELSE "returned"
    /\ UNCHANGED << actions, currentFrame, disp, events, subscriptions,
                    nextId, fate, last, prev, cancelled, subscribed >>
    /\ UNCHANGED sources

\* The subscribers a push has still to forward its event to: what is left of
\* the snapshot taken when the push began.
PendingLive(top) ==
    top.rest \o SelectSeq(subject, LAMBDA s :
                    /\ \A i \in 1 .. Len(top.rest) : top.rest[i] # s
                    /\ \A i \in 1 .. Len(received[s]) : received[s][i].id # top.id)

Pending(top) == top.rest

\* The running callback of the user returns: to the push that called it, which
\* forwards the event to the next subscriber of its snapshot that is still
\* active, or else to the loop of its flush().
CallbackReturn ==
    /\ stack # << >>
    /\ Top.pc = "cb"
    /\ LET rest == Pending(Top)
           i == NextActive(rest)
       IN  IF i > 0
           THEN /\ received' = [received EXCEPT ![rest[i]] =
                                   Append(@, [id |-> Top.id, ev |-> Top.ev,
                                              frame |-> currentFrame])]
                /\ stack' = SetTop([Top EXCEPT
                                !.rest = SubSeq(rest, i + 1, Len(rest))])
           ELSE /\ received' = received
                /\ stack' = SetTop([Top EXCEPT !.pc = "shift", !.id = 0,
                                               !.ev = 0, !.rest = << >>])
    /\ UNCHANGED << actions, currentFrame, isFlushing, disp, events,
                    subscriptions, nextId, fate, last, prev, cancelled,
                    subscribed, lastFlush, subject, recorded, played,
                    watching, log >>

\* The body of reset(): what it leaves in queue, frame and guard.
ResetKeepsQueue ==
    [actions |-> actions, currentFrame |-> 0, isFlushing |-> FALSE]

ResetKeepsFrame ==
    [actions |-> << >>, currentFrame |-> currentFrame, isFlushing |-> FALSE]

ResetKeepsGuard ==
    [actions |-> << >>, currentFrame |-> 0, isFlushing |-> isFlushing]

ResetState ==
    [actions |-> << >>, currentFrame |-> 0, isFlushing |-> FALSE]

DoReset ==
    /\ actions' = ResetState.actions
    /\ currentFrame' = ResetState.currentFrame
    /\ isFlushing' = ResetState.isFlushing
    /\ fate' = [id \in DOMAIN fate |->
                   IF fate[id] = "queued" THEN "dropped" ELSE fate[id]]
    /\ last' = None
    /\ prev' = None

\* reset() called by user code.
reset ==
    /\ CanAct
    /\ DoReset
    /\ stack' = [i \in 1 .. Len(stack) |-> [stack[i] EXCEPT !.reset = TRUE]]
    /\ UNCHANGED << disp, events, subscriptions, nextId, cancelled,
                    subscribed, lastFlush >>
    /\ UNCHANGED sources

\* The running callback raises: the catch of its flush() resets and rethrows.
\* The error reaches the caller of that flush(): the test body, or the
\* callback that called it, which goes on (catching it) or raises in turn.
CallbackRaise ==
    /\ stack # << >>
    /\ Top.pc = "cb"
    /\ DoReset
    /\ stack' = [i \in 1 .. Len(stack) - 1 |-> [stack[i] EXCEPT !.reset = TRUE]]
    /\ lastFlush' = "threw"
    /\ UNCHANGED << disp, events, subscriptions, nextId, cancelled, subscribed >>
    /\ UNCHANGED sources

\* ------------------------------------------------------- specification
\* The state after construction, with identities for `capacity' closures and
\* a timeline out of `timelines'.
Fresh(capacity, timelines) ==
    /\ actions = << >>
    /\ currentFrame = 0
    /\ isFlushing = FALSE
    /\ stack = << >>
    /\ disp = [d \in AllDisposables |-> [active |-> TRUE, teardowns |-> << >>]]
    /\ events \in timelines
    /\ subscriptions = << >>
    /\ nextId = 1
    /\ fate = [id \in 1 .. capacity |-> "none"]
    /\ last = None
    /\ prev = None
    /\ cancelled = {}
    /\ subscribed = << >>
    /\ lastFlush = "none"
    /\ subject = << >>
    /\ recorded = << >>
    /\ received = [d \in Disposables |-> << >>]
    /\ played = << >>
    /\ watching = << >>
    /\ log = << >>

Init == Fresh(MaxActions, Timelines)

Next ==
    \/ \E delayFrames \in Delays, sub \in Subscriptions :
           Schedule(delayFrames, sub)
    \/ \E sink \in Disposables : Subscribe(sink)
    \/ FlushNested
    \/ FlushEnter
    \/ FlushShift
    \/ FlushReturn
    \/ CallbackReturn
    \/ CallbackRaise
    \/ reset
    \/ \E d \in Disposables : Dispose(d)

Spec == Init /\ [][Next]_vars

\* A schedule whose callbacks return: they schedule, dispose, flush and
\* reset, none raises, and each returns after finitely many calls.
InitReturning == Fresh(MaxActions, {<< >>})

NextReturning ==
    \/ \E delayFrames \in Delays, sub \in Subscriptions :
           Schedule(delayFrames, sub)
    \/ FlushNested
    \/ FlushEnter
    \/ FlushShift
    \/ FlushReturn
    \/ CallbackReturn
    \/ reset
    \/ Dispose("d1")

SpecReturning ==
    /\ InitReturning
    /\ [][NextReturning]_vars
    /\ WF_vars(FlushShift)
    /\ WF_vars(FlushReturn)
    /\ SF_vars(CallbackReturn)

\* Several sinks subscribed to one TestSource: room for the timeline twice.
InitSource == Fresh(MaxActions + 1, Timelines)

NextSource ==
    \/ \E sink \in Disposables : Subscribe(sink)
    \/ FlushNested
    \/ FlushEnter
    \/ FlushShift
    \/ FlushReturn
    \/ CallbackReturn
    \/ CallbackRaise
    \/ reset
    \/ \E d \in Disposables : Dispose(d)

SpecSource == InitSource /\ [][NextSource]_vars

\* Sinks subscribed to one SharedTestSource that the test plays, with room
\* for two playbacks.  Frames advance through the playback itself.
InitShared == Fresh(MaxActions + 1, Timelines)

NextShared ==
    \/ \E sink \in Disposables : SharedSubscribe(sink)
    \/ \E sub \in Subscriptions : SharedSchedule(sub)
    \/ FlushNested
    \/ FlushEnter
    \/ FlushShift
    \/ FlushReturn
    \/ CallbackReturn
    \/ \E d \in Disposables : Dispose(d)

SpecShared == InitShared /\ [][NextShared]_vars

\* A TestSource watched by watchSourceEvents, called from the test body or
\* from a callback at whatever frame the schedule has reached.
InitWatch == Fresh(MaxActions + 3, WatchTimelines)

NextWatch ==
    \/ \E delayFrames \in Delays : Schedule(delayFrames, NoSub)
    \/ \E arg \in WatchArgs : Watch(arg)
    \/ FlushNested
    \/ FlushEnter
    \/ FlushShift
    \/ FlushReturn
    \/ CallbackReturn

SpecWatch == InitWatch /\ [][NextWatch]_vars

\* A test body that schedules named callbacks on a fresh schedule and flushes.
InitNamed == Fresh(MaxActions, Timelines)

NextNamed ==
    \/ \E name \in Named, delayFrames \in ScenarioDelays :
           ScheduleNamed(name, delayFrames)
    \/ FlushEnter
    \/ FlushShift
    \/ FlushReturn

SpecNamed == InitNamed /\ [][NextNamed]_vars

\* getActionInsertIndex on every sorted queue: the queues that schedule calls
\* made at frame 0 leave, equal frames in the order of the calls, and one
\* more call on each.
QueueLen == MaxActions + 2

Frames == 0 .. MaxDelay + 2

SortedFrames(n) ==
    { f \in [1 .. n -> Frames] : \A i, j \in 1 .. n : i < j => f[i] <= f[j] }

Queued(f, n) ==
    [i \in 1 .. n |-> [id |-> i, callback |-> UserCallback,
                       executionFrame |-> f[i], shouldCall |-> TRUE]]

InitInsert ==
    /\ \E n \in 0 .. QueueLen : \E f \in SortedFrames(n) :
           /\ actions = Queued(f, n)
           /\ nextId = n + 1
           /\ fate = [id \in 1 .. QueueLen + 1 |->
                          IF id <= n THEN "queued" ELSE "none"]
    /\ currentFrame = 0
    /\ isFlushing = FALSE
    /\ stack = << >>
    /\ disp = [d \in AllDisposables |-> [active |-> TRUE, teardowns |-> << >>]]
    /\ events = << >>
    /\ subscriptions = << >>
    /\ last = None
    /\ prev = None
    /\ cancelled = {}
    /\ subscribed = << >>
    /\ lastFlush = "none"
    /\ subject = << >>
    /\ recorded = << >>
    /\ received = [d \in Disposables |-> << >>]
    /\ played = << >>
    /\ watching = << >>
    /\ log = << >>

NextInsert == \E delayFrames \in Frames : Schedule(delayFrames, NoSub)

SpecInsert == InitInsert /\ [][NextInsert]_vars

\* Disposables, teardown callbacks and nested Disposables, apart from any
\* schedule or source.
InitTree == Fresh(MaxActions, {<< >>})

NextTree ==
    \/ \E d \in Disposables : DisposeCall(d)
    \/ \E d \in Disposables, name \in Teardowns : AddCallback(d, name)
    \/ \E d, child \in Disposables : AddChild(d, child)
    \/ TeardownRun
    \/ ChildDispose
    \/ DisposeDone
    \/ TeardownReturn

SpecTree == InitTree /\ [][NextTree]_vars

\* ---------------------------------------------------------------- claims
Ran == {"invoked", "delivered", "ignored"}

\* C1: between two resets, callbacks are invoked in non-decreasing
\* executionFrame order, and callbacks of the same executionFrame in the
\* order of their schedule calls (identities are given in call order):
\* each invoked callback comes after the one invoked before it.
C1_FlushOrder ==
    (last.called /\ prev.id # 0) =>
        \/ prev.frame < last.frame
        \/ prev.frame = last.frame /\ prev.id < last.id

\* Two callbacks of one frame ran, the first scheduled first, while a third
\* action scheduled before both ran after neither of them.
C1_Witness ==
    /\ last.called /\ prev.id # 0
    /\ prev.frame = last.frame /\ prev.id < last.id
    /\ \E id \in 1 .. MaxActions : id < prev.id /\ fate[id] = "queued"

Without(q, i) == SubSeq(q, 1, i - 1) \o SubSeq(q, i + 1, Len(q))

\* C2: an action whose subscription was disposed while it was queued is
\* never invoked, and where a new action goes among the other queued
\* actions is the same with the cancelled action in the queue as without it.
C2_CancelledSkipped ==
    /\ \A id \in cancelled : fate[id] \notin Ran
    /\ \A i \in 1 .. Len(actions) : \A delayFrames \in Delays :
           actions[i].id \in cancelled =>
               LET index == getActionInsertIndex(actions, currentFrame + delayFrames)
               IN  getActionInsertIndex(Without(actions, i), currentFrame + delayFrames)
                       = IF i <= index THEN index - 1 ELSE index

\* A cancelled action was skipped, scheduled between two invoked ones.
C2_Witness ==
    /\ last.called /\ prev.id # 0
    /\ \E id \in cancelled :
           fate[id] = "skipped" /\ prev.id < id /\ id < last.id

Raises == stack # << >> /\ Len(stack') = Len(stack) - 1 /\ Top.pc = "cb"

\* C3: when a callback raises, its flush() ends by throwing, every action
\* still queued is discarded without being invoked, and the queue is empty
\* and currentFrame 0 when the flush() exits.
C3_RaiseResets ==
    [][Raises =>
          /\ lastFlush' = "threw"
          /\ actions' = << >>
          /\ currentFrame' = 0
          /\ \A id \in 1 .. MaxActions :
                 /\ fate[id] = "queued" => fate'[id] = "dropped"
                 /\ fate[id] # "queued" => fate'[id] = fate[id]]_vars

\* A flush() threw to the test body and left two actions uninvoked.
C3_Witness ==
    /\ lastFlush = "threw" /\ stack = << >>
    /\ actions = << >> /\ currentFrame = 0
    /\ Cardinality({ id \in 1 .. MaxActions : fate[id] = "dropped" }) >= 2

\* C4: flush() called by a callback of a flush during which reset() was not
\* called shifts no action, invokes no callback and leaves currentFrame and
\* the guard as they are; the callback goes on inside the outer flush.
C4_NestedFlushNoOp ==
    [][(flush /\ stack # << >> /\ ~Top.reset) =>
          UNCHANGED << actions, currentFrame, isFlushing, stack, fate >>]_vars

\* A callback called flush() with actions still queued, and the outer flush
\* went on to invoke the next one.
C4_Witness ==
    /\ lastFlush = "nested"
    /\ stack # << >> /\ ~Top.reset /\ Top.pc = "cb"
    /\ last.called /\ prev.called

\* C5: while a scheduled callback is executing, no flush() it calls invokes
\* another scheduled callback: at most one callback is executing at a time.
C5_NoOverlappingDrain ==
    Cardinality({ i \in 1 .. Len(stack) : stack[i].pc = "cb" }) <= 1

\* C6: after a callback calls reset() in the middle of a flush, no action
\* discarded by the reset is invoked, no action that ran runs again, and
\* once every flush() has returned the guard is clear, so that the next
\* flush() is not taken for a nested one.
C6_ResetMidFlush ==
    /\ [][\A id \in 1 .. MaxActions :
              (fate[id] = "dropped" \/ fate[id] \in Ran) => fate'[id] = fate[id]]_vars
    /\ [](stack = << >> => ~isFlushing)
    /\ [][(stack = << >> /\ flush) => Len(stack') = 1]_vars

\* A flush() returned after a callback of it called reset() with an action
\* queued; a later flush() is invoking an action scheduled since.
C6_Witness ==
    /\ lastFlush = "returned after reset"
    /\ Len(stack) = 1 /\ Top.pc = "cb" /\ ~Top.reset
    /\ fate[Top.id] = "invoked"
    /\ \E id \in 1 .. MaxActions : fate[id] = "dropped"
    /\ \E id \in 1 .. MaxActions : id < Top.id /\ fate[id] = "invoked"

\* C7: reset(), called by user code in any state or by the catch of
\* flush(), leaves the queue empty, currentFrame 0 and the guard clear, and
\* the actions it discards are in no later queue.
C7_ResetClears ==
    /\ [][(reset \/ CallbackRaise) =>
             /\ actions' = << >>
             /\ currentFrame' = 0
             /\ isFlushing' = FALSE
             /\ \A id \in 1 .. MaxActions :
                    fate[id] = "queued" => fate'[id] = "dropped"]_vars
    /\ [](\A i \in 1 .. Len(actions) : fate[actions[i].id] = "queued")

\* reset() was called by a callback, in the middle of a flush, with an
\* action queued at a frame that was not 0.
C7_Witness ==
    /\ stack # << >> /\ Top.pc = "cb" /\ Top.reset
    /\ actions = << >> /\ currentFrame = 0 /\ ~isFlushing
    /\ last = None
    /\ \E id \in 1 .. MaxActions : fate[id] = "dropped"
    /\ \E id \in 1 .. MaxActions : id > Top.id /\ fate[id] \in Ran

\* C8, as stated: currentFrame is the executionFrame of the action whose
\* callback is executing or was executed last since the last reset(), and 0
\* when there is none.
C8_FrameOfLastInvoked ==
    currentFrame = (IF last.called THEN last.frame ELSE prev.frame)

\* C8, amended: currentFrame is the executionFrame of the action flush()
\* shifted last since the last reset(), whether its callback was invoked or
\* skipped, and 0 when there is none.
C8_FrameOfLastShifted == currentFrame = last.frame

\* A cancelled action was shifted and skipped at a later frame than the
\* callback invoked before it.
C8_Witness ==
    /\ last.id # 0 /\ ~last.called
    /\ prev.id # 0 /\ prev.frame < last.frame
    /\ currentFrame = last.frame

\* C9: a schedule call with an inactive subscription leaves the queue,
\* currentFrame and the teardowns of every Disposable as they were, and its
\* callback is never invoked afterwards.
C9_InactiveNotScheduled ==
    /\ [][\A delayFrames \in Delays : \A sub \in Disposables :
              (Schedule(delayFrames, sub) /\ ~disp[sub].active) =>
                  /\ UNCHANGED << actions, currentFrame, disp >>
                  /\ fate'[nextId] = "refused"]_vars
    /\ [][\A sink \in Disposables :
              (Subscribe(sink) /\ ~disp[sink].active) =>
                  /\ UNCHANGED << actions, currentFrame, disp >>
                  /\ \A id \in nextId .. nextId' - 1 : fate'[id] = "refused"]_vars
    /\ [][\A id \in 1 .. MaxActions :
              fate[id] = "refused" => fate'[id] = "refused"]_vars

\* A call was refused, and a flush later invoked an action scheduled after it.
C9_Witness ==
    /\ \E id \in 1 .. MaxActions :
           /\ fate[id] = "refused"
           /\ \E later \in 1 .. MaxActions : later > id /\ fate[later] = "invoked"
    /\ lastFlush = "returned" /\ stack = << >>

\* The closure that pushes event k of subscription r.
EventAction(r, k) == r.first + k - 1

Before(k1, k2) ==
    \/ events[k1].frame < events[k2].frame
    \/ events[k1].frame = events[k2].frame /\ k1 < k2

Subscription(n) == subscribed[n]

\* C10: for a subscription made at frame s by a sink that stays active,
\* with no reset() in between: event e is delivered at frame s + e.frame,
\* after every event of a smaller frame or declared before it at the same
\* frame, before every other one, and once the queue is empty every event
\* has been delivered (each once: a delivered event stays delivered).
C10_TimelineDelivered ==
    /\ [][\A n \in 1 .. Len(subscribed) : \A k \in 1 .. Len(events) :
              LET r == Subscription(n)
                  id == EventAction(r, k)
              IN  (fate[id] = "queued" /\ fate'[id] = "delivered") =>
                      /\ currentFrame' = r.frame + events[k].frame
                      /\ \A j \in 1 .. Len(events) :
                             /\ Before(j, k) => fate[EventAction(r, j)] # "queued"
                             /\ Before(k, j) => fate[EventAction(r, j)] # "delivered"]_vars
    /\ [](\A n \in 1 .. Len(subscribed) :
              LET r == Subscription(n)
                  ids == { EventAction(r, k) : k \in 1 .. Len(events) }
              IN  /\ disp[r.sink].active =>
                         \A id \in ids : fate[id] \in {"queued", "delivered", "dropped"}
                  /\ (disp[r.sink].active /\ actions = << >>
                          /\ \A id \in ids : fate[id] # "dropped") =>
                         \A id \in ids : fate[id] = "delivered")

\* A subscription made at a frame after 0 had its whole timeline delivered
\* and the flush returned, the sink still active.
C10_Witness ==
    /\ stack = << >> /\ lastFlush = "returned"
    /\ \E n \in 1 .. Len(subscribed) :
           /\ Subscription(n).frame > 0
           /\ disp[Subscription(n).sink].active
           /\ \A k \in 1 .. Len(events) :
                  fate[EventAction(Subscription(n), k)] = "delivered"

\* C11: once the Disposable of a subscribed sink is inactive, the closures
\* that push the events of the timeline to that sink are not invoked any
\* more: each one still queued stays queued, is skipped or is discarded.
C11_NoDeliveryAfterDispose ==
    [][\A n \in 1 .. Len(subscribed) : \A k \in 1 .. Len(events) :
           LET r == Subscription(n)
               id == EventAction(r, k)
           IN  (~disp[r.sink].active /\ fate[id] = "queued") =>
                   fate'[id] \in {"queued", "skipped", "dropped"}]_vars

\* A sink was disposed after one event of its timeline was delivered, and
\* the other event was shifted later without being delivered.
C11_Witness ==
    \E n \in 1 .. Len(subscribed) :
        /\ ~disp[Subscription(n).sink].active
        /\ \E j, k \in 1 .. Len(events) :
               /\ fate[EventAction(Subscription(n), j)] = "delivered"
               /\ fate[EventAction(Subscription(n), k)] = "skipped"

Offset(r, k) == r.frame + events[k].frame

Range(seq) == { seq[i] : i \in 1 .. Len(seq) }

C13_IndependentSubscriptions ==
    /\ [](\A n \in 1 .. Len(subscribed) : \A k \in 1 .. Len(events) :
             LET r == Subscription(n)
                 id == EventAction(r, k)
             IN  /\ fate[id] = "delivered" =>
                        [id |-> id, ev |-> k, frame |-> Offset(r, k)]
                            \in Range(received[r.sink])
                 /\ \A i \in 1 .. Len(actions) :
                        actions[i].id = id =>
                            actions[i].executionFrame = Offset(r, k)
                 /\ (/\ disp[r.sink].active
                     /\ \A j \in 1 .. Len(events) :
                            fate[EventAction(r, j)] \notin {"queued", "dropped"})
                        => fate[id] = "delivered")
    /\ [][\A d \in Disposables :
              (disp[d].active /\ ~disp'[d].active) =>
                  /\ Len(actions') = Len(actions)
                  /\ \A i \in 1 .. Len(actions) :
                         /\ actions'[i].id = actions[i].id
                         /\ actions[i].callback.sink # d =>
                                actions'[i] = actions[i]]_vars

\* Two sinks subscribed at different frames; the first was disposed after its
\* first event and lost the rest, the second received the whole timeline.
C13_Witness ==
    /\ Len(subscribed) = 2
    /\ Subscription(1).sink # Subscription(2).sink
    /\ Subscription(1).frame < Subscription(2).frame
    /\ ~disp[Subscription(1).sink].active
    /\ fate[EventAction(Subscription(1), 1)] = "delivered"
    /\ fate[EventAction(Subscription(1), 2)] = "skipped"
    /\ Len(received[Subscription(2).sink]) = Len(events)
    /\ \A k \in 1 .. Len(events) :
           fate[EventAction(Subscription(2), k)] = "delivered"

\* C14: a subscription to the SharedTestSource schedules nothing: the queue
\* and the closures handed to the schedule are what they were, one
\* TestSubscriptionInfo is appended and an active sink joins the subscribers
\* of the Subject.  While schedule() was never called no sink has received
\* anything.
C14_SubscribeSchedulesNothing ==
    /\ [][\A sink \in Disposables :
              SharedSubscribe(sink) =>
                  /\ actions' = actions
                  /\ nextId' = nextId
                  /\ fate' = fate
                  /\ Len(subscriptions') = Len(subscriptions) + 1
                  /\ subject' = IF disp[sink].active
                                 THEN Append(subject, sink) ELSE subject]_vars
    /\ [](played = << >> => \A s \in Disposables : received[s] = << >>)

\* Two sinks subscribed and a flush() returned, schedule() never called.
C14_Witness ==
    /\ Len(subject) = 2
    /\ Len(subscriptions) = 2
    /\ played = << >>
    /\ lastFlush = "returned"
    /\ actions = << >>
    /\ \A s \in Disposables : received[s] = << >>

\* C15: a call of schedule() that is not refused adds one action for each
\* event of the timeline, whatever the subscribers of the Subject are, and
\* none when its subscription is inactive; no sink receives the push of one
\* of these actions twice.
PushAction(c, k) == played[c].first + k - 1

C15_ScheduledOnce ==
    /\ [][\A sub \in Subscriptions :
              SharedSchedule(sub) =>
                  IF Refused(disp, sub) THEN actions' = actions
                  ELSE /\ Len(actions') = Len(actions) + Len(events)
                       /\ \A k \in 1 .. Len(events) :
                              Cardinality({ i \in 1 .. Len(actions') :
                                  /\ actions'[i].id >= nextId
                                  /\ actions'[i].callback.kind = "push"
                                  /\ actions'[i].callback.ev = k }) = 1]_vars
    /\ [](\A c \in 1 .. Len(played) : \A k \in 1 .. Len(events) :
             \A s \in Disposables :
                 Cardinality({ i \in 1 .. Len(received[s]) :
                                   received[s][i].id = PushAction(c, k) }) <= 1)

\* schedule() was called with no subscriber and again with two; both calls
\* queued the timeline once, and a sink has received an event of the second.
C15_Witness ==
    /\ Len(played) = 2
    /\ played[1].subscribers = << >>
    /\ Len(played[2].subscribers) = 2
    /\ \A c \in 1 .. 2 : \A k \in 1 .. Len(events) :
           fate[PushAction(c, k)] \in {"queued", "invoked"}
    /\ \E s \in Disposables : \E i \in 1 .. Len(received[s]) :
           received[s][i].id = PushAction(2, 1)

\* C16: two sinks that subscribed before anything was pushed and are both
\* still subscribed have received the same events at the same frames; while
\* a push is forwarding, the one it has not reached yet lacks that one event.
Forwarding == IF stack = << >> THEN FALSE ELSE Top.pc = "cb" /\ Top.ev # 0

C16_SameSequence ==
    \A n1, n2 \in 1 .. Len(subscribed) :
        LET a == Subscription(n1).sink
            b == Subscription(n2).sink
        IN  (/\ Subscription(n1).past = {}
             /\ Subscription(n2).past = {}
             /\ disp[a].active
             /\ disp[b].active) =>
                \/ received[a] = received[b]
                \/ /\ Forwarding
                   /\ \/ /\ received[a] # << >>
                         /\ received[b] = SubSeq(received[a], 1, Len(received[a]) - 1)
                      \/ /\ received[b] # << >>
                         /\ received[a] = SubSeq(received[b], 1, Len(received[b]) - 1)

\* Both sinks were subscribed when schedule() was called, both are still
\* subscribed and the whole timeline has been forwarded to both.
C16_Witness ==
    /\ Len(played) = 1
    /\ Len(played[1].subscribers) = 2
    /\ \A s \in Disposables : disp[s].active /\ Len(received[s]) = Len(events)
    /\ received["d1"][Len(events)].frame > 0
    /\ stack = << >>

\* C17: a sink never receives a push made before it subscribed.
C17_NoReplay ==
    \A n \in 1 .. Len(subscribed) :
        \A i \in 1 .. Len(received[Subscription(n).sink]) :
            received[Subscription(n).sink][i].id \notin Subscription(n).past

\* A sink that subscribed during the first push has received the second
\* push and no more, while the earlier subscriber has received both.
C17_Witness ==
    \E n, m \in 1 .. Len(subscribed) :
        /\ Subscription(n).past # {}
        /\ Len(received[Subscription(n).sink]) = 1
        /\ Subscription(m).past = {}
        /\ Len(received[Subscription(m).sink]) = 2
        /\ Len(played) = 1

\* C18: the subscription watchSourceEvents makes starts at the frame
\* info.subscriptionStartFrame and is disposed at info.subscriptionEndFrame,
\* whatever currentFrame was at the call; with no info given it starts at
\* the frame that was current at the call.
Watched == watching[1]

WatcherSubscriptions ==
    { n \in 1 .. Len(subscribed) : Subscription(n).sink = Watcher }

C18_WatchWindow ==
    watching # << >> =>
        \A n \in WatcherSubscriptions :
            /\ subscriptions[n].subscriptionStartFrame =
                   IF Watched.arg.omitted THEN Watched.frame
                   ELSE Watched.arg.subscriptionStartFrame
            /\ ~Watched.arg.omitted =>
                   subscriptions[n].subscriptionEndFrame \in
                       {Infinity, Watched.arg.subscriptionEndFrame}

\* C19: the list of watchSourceEvents changes only by the delivery of an
\* event to the sink of the watcher while its Disposable is active, and
\* every such delivery appends that event with its frame field replaced by
\* the frame of the schedule at the delivery.
Delivery ==
    /\ stack # << >>
    /\ Top.pc = "shift"
    /\ actions # << >>
    /\ Head(actions).shouldCall
    /\ Head(actions).callback.kind = "emit"
    /\ Head(actions).callback.sink = Watcher
    /\ disp[Watcher].active
    /\ actions' = Tail(actions)

C19_RecordedAtDelivery ==
    /\ [][Delivery =>
              recorded' = Append(recorded,
                  [type |-> events[Head(actions).callback.ev].type,
                   value |-> events[Head(actions).callback.ev].value,
                   frame |-> currentFrame'])]_vars
    /\ [][recorded' # recorded => Delivery]_vars
    /\ [][~disp[Watcher].active => recorded' = recorded]_vars

\* The watcher was disposed after it recorded an event at a frame other than
\* the declared one, and a later event of the timeline was cancelled.
C19_Witness ==
    /\ ~disp[Watcher].active
    /\ \E n \in WatcherSubscriptions : \E j, k \in 1 .. Len(events) :
           /\ fate[EventAction(Subscription(n), j)] = "delivered"
           /\ fate[EventAction(Subscription(n), k)] = "skipped"
           /\ recorded = << [type |-> events[j].type, value |-> events[j].value,
                              frame |-> Offset(Subscription(n), j)] >>
           /\ Offset(Subscription(n), j) # events[j].frame

\* C20: on a fresh schedule, once the timeline P(1, 0), P(2, 10), E(20)
\* watched with TestSubscriptionInfo(0, 25) has been flushed, the list holds
\* Push(1) at frame 0, Push(2) at frame 10 and End at frame 20.
ScenarioBWatched ==
    /\ events = ScenarioB
    /\ watching # << >>
    /\ Watched.frame = 0
    /\ Watched.first = 1
    /\ Watched.arg = [omitted |-> FALSE, subscriptionStartFrame |-> 0,
                       subscriptionEndFrame |-> 25]
    /\ actions = << >>
    /\ stack = << >>

C20_ScenarioB ==
    ScenarioBWatched =>
        recorded = << [type |-> "Push", value |-> 1, frame |-> 0],
                      [type |-> "Push", value |-> 2, frame |-> 10],
                      [type |-> "End", value |-> 0, frame |-> 20] >>

C20_Witness ==
    /\ ScenarioBWatched
    /\ Len(recorded) = 3
    /\ currentFrame = 25
    /\ ~disp[Watcher].active

\* C21: on a fresh schedule, after (cb1, 5), (cb2, 2), (cb3, 2) were scheduled
\* in that order, the calls flush() makes are cb2 at frame 2, cb3 at frame 2
\* and cb1 at frame 5, in this order and no others, and when the queue is
\* flushed all three were made and currentFrame is 5.
ScenarioA ==
    << [op |-> "schedule", what |-> "cb1", at |-> 5],
       [op |-> "schedule", what |-> "cb2", at |-> 2],
       [op |-> "schedule", what |-> "cb3", at |-> 2] >>

ScenarioACalls ==
    << [op |-> "call", what |-> "cb2", at |-> 2],
       [op |-> "call", what |-> "cb3", at |-> 2],
       [op |-> "call", what |-> "cb1", at |-> 5] >>

ScenarioAScheduled == Len(log) >= 3 /\ SubSeq(log, 1, 3) = ScenarioA

C21_ScenarioA ==
    ScenarioAScheduled =>
        /\ Len(log) <= 6
        /\ SubSeq(log, 4, Len(log)) = SubSeq(ScenarioACalls, 1, Len(log) - 3)
        /\ (actions = << >> /\ stack = << >>) =>
               Len(log) = 6 /\ currentFrame = 5

C21_Witness ==
    /\ ScenarioAScheduled
    /\ Len(log) = 6
    /\ lastFlush = "returned"
    /\ stack = << >>
    /\ currentFrame = 5

\* The places of the log where the entry stands.
At(op, what, at) == {i \in 1 .. Len(log) : log[i] = Noted(op, what, at)}

\* The places of the log where the teardown callback was run.
Runs(name) ==
    {i \in 1 .. Len(log) : log[i].op = "run" /\ log[i].what = name}

\* dispose() of d was called and has not returned.
InProgress(d) == \E k \in 1 .. Len(stack) : stack[k].of = d

\* The step runs no teardown callback.
RunsNothing ==
    \A i \in 1 .. Len(log') : log'[i].op = "run" => i <= Len(log)

\* C22: disposal is idempotent.  Once a dispose() of a Disposable has
\* returned, the Disposable is inactive; an inactive Disposable never
\* becomes active again, whatever add() and dispose() calls follow; a
\* dispose() call on it changes no Disposable, starts no disposal and runs
\* no teardown; and no teardown callback is ever run twice.
C22_Idempotent ==
    /\ [](\A d \in Disposables :
            At("inactive", d, d) # {} => ~disp[d].active)
    /\ [](\A name \in Teardowns : Cardinality(Runs(name)) <= 1)
    /\ [][\A d \in Disposables :
            ~disp[d].active =>
                /\ ~disp'[d].active
                /\ DisposeCall(d) =>
                       disp' = disp /\ stack' = stack /\ RunsNothing]_vars

\* A Disposable with a teardown callback was disposed, and dispose() was
\* called on it again afterwards.
C22_Witness ==
    \E d \in Disposables, name \in Teardowns :
        /\ ~disp[d].active
        /\ \E i \in At("add", name, d), j \in Runs(name),
              k \in At("inactive", d, d), l \in At("again", d, d) :
               i < j /\ j < k /\ k < l

Called(d) ==
    {i \in 1 .. Len(log) :
        /\ log[i].op \in {"dispose", "again", "child", "late"}
        /\ log[i].what = d}

\* C24: add() on an inactive Disposable stores nothing and executes the
\* teardown at once: a callback is run in the same step, a nested Disposable
\* that is active (and not already being disposed) has its disposal begun
\* in the same step and is inactive when the calls have returned.  add() on
\* an active Disposable appends the teardown to the list and runs nothing,
\* and a stored callback is not run before a dispose() of its Disposable.
C24_Add ==
    /\ [][\A d \in Disposables, name \in Teardowns :
            AddCallback(d, name) =>
                IF disp[d].active
                THEN /\ disp'[d].teardowns =
                            Append(disp[d].teardowns,
                                   [kind |-> "callback", ref |-> name])
                     /\ stack' = stack
                     /\ RunsNothing
                ELSE /\ disp' = disp
                     /\ log'[Len(log')] = Noted("run", name, d)
                     /\ Len(stack') = Len(stack) + 1
                     /\ stack'[Len(stack')].pc = "cb"]_vars
    /\ [][\A d, child \in Disposables :
            AddChild(d, child) =>
                IF disp[d].active
                THEN /\ disp'[d].teardowns =
                            Append(disp[d].teardowns,
                                   [kind |-> "child", ref |-> child])
                     /\ disp'[child] = disp[child]
                     /\ stack' = stack
                     /\ RunsNothing
                ELSE /\ disp' = disp
                     /\ (disp[child].active /\ ~InProgress(child)) =>
                            /\ Len(stack') = Len(stack) + 1
                            /\ stack'[Len(stack')].of = child]_vars
    /\ [](\A d \in Disposables :
            /\ ~disp[d].active => disp[d].teardowns = << >>
            /\ \A child \in Disposables :
                   (At("late", child, d) # {} /\ stack = << >>) =>
                       ~disp[child].active
            /\ \A name \in Teardowns :
                   \A i \in At("add", name, d), r \in Runs(name) :
                       \E k \in Called(d) : k < r)

\* A callback was stored on an active Disposable and run by its disposal;
\* afterwards another callback was added to the inactive Disposable and run
\* at once, and so was an active nested Disposable holding a callback, which
\* is disposed.
C24_Witness ==
    /\ stack = << >>
    /\ ~disp["d1"].active /\ ~disp["d2"].active
    /\ \E i \in At("add", "t1", "d1"), k \in At("inactive", "d1", "d1"),
          l \in At("late", "t3", "d1"), c \in At("late", "d2", "d1"),
          a \in At("add", "t2", "d2"), r \in Runs("t2") :
           /\ i < k /\ k < l /\ k < c /\ a < c /\ c < r
           /\ log[l + 1] = Noted("run", "t3", "d1")

\* The places of the log where the disposal of d took the teardown: the run
\* of a callback, the dispose() of a nested Disposable.
Taken(what, d) ==
    {i \in 1 .. Len(log) :
        /\ log[i].op \in {"run", "child"}
        /\ log[i].what = what
        /\ log[i].at = d}

Entries == Teardowns \cup Disposables

\* The disposal of d takes the teardowns stored on d in the order added,
\* each once.
InOrderAdded ==
    \A d \in Disposables, a, b \in Entries :
        /\ Cardinality(Taken(a, d)) <= 1
        /\ \A i \in At("add", a, d), j \in At("add", b, d) :
               i < j => \A rb \in Taken(b, d) :
                            \E ra \in Taken(a, d) : ra < rb

\* active becomes false when every teardown stored on d has been taken.
ThenInactive ==
    \A d \in Disposables, a \in Entries :
        \A k \in At("inactive", d, d), i \in At("add", a, d) :
            /\ i < k
            /\ \E ra \in Taken(a, d) : ra < k

\* The disposal of c was begun before place p of the log and is not over.
Underway(c, p) ==
    /\ \E q \in At("dispose", c, c) : q < p
    /\ \A k \in At("inactive", c, c) : k > p

\* The nested Disposable c, taken at place p, is inactive, all its teardowns
\* run, before the disposal of d takes the next teardown or ends.
NestedFirst(d, c, p) ==
    \A n \in 1 .. Len(log) :
        (n > p /\ log[n].at = d /\ log[n].op \in {"run", "inactive"}) =>
            /\ \E k \in At("inactive", c, c) : k < n
            /\ \A x \in Teardowns :
                   \A i \in At("add", x, c) : \E r \in Runs(x) : r < n

Got(sink) == { received[sink][i].id : i \in 1 .. Len(received[sink]) }

\* C26: in no step does the callback of a Sink whose Disposable is inactive
\* receive an event, and the Sink of watchSourceEvents records none.
C26_InactiveSink ==
    [][/\ \A s \in Disposables :
              ~disp[s].active => received'[s] = received[s]
       /\ ~disp[Watcher].active => recorded' = recorded]_vars

\* A push is forwarding its event and has still to reach a sink that the
\* callback of an earlier subscriber has disposed.
C26_Witness ==
    /\ Forwarding
    /\ \E i \in 1 .. Len(Top.rest) :
           /\ ~disp[Top.rest[i]].active
           /\ Top.id \notin Got(Top.rest[i])
    /\ \E s \in Disposables : disp[s].active /\ Top.id \in Got(s)

\* The pushes that were invoked.
Pushes ==
    { id \in DOMAIN fate :
        fate[id] = "invoked" /\ \E c \in 1 .. Len(played) :
            \E k \in 1 .. Len(events) : PushAction(c, k) = id }

\* The push is forwarding and has still to reach the sink.
Awaits(sink, id) ==
    Forwarding /\ Top.id = id /\ sink \in Range(Top.rest)

\* The place of the sink in the order of subscription.
Place(sink) ==
    CHOOSE n \in 1 .. Len(subscribed) : Subscription(n).sink = sink

\* C27: the Subject holds the sinks in subscription order, each once, and
\* none whose Disposable was disposed.  A push reaches each sink at most
\* once; while it forwards, the sinks it has still to reach subscribed after
\* every sink that has received it; and when it is over, every sink that was
\* subscribed when it began and is still active has received it.
C27_SubjectPush ==
    /\ \A i, j \in 1 .. Len(subject) :
           /\ disp[subject[i]].active
           /\ i < j => Place(subject[i]) < Place(subject[j])
    /\ \A s \in Disposables :
           \A i, j \in 1 .. Len(received[s]) :
               received[s][i].id = received[s][j].id => i = j
    /\ Forwarding =>
           \A s \in Disposables :
               Top.id \in Got(s) =>
                   \A i \in 1 .. Len(Top.rest) : Place(s) < Place(Top.rest[i])
    /\ \A n \in 1 .. Len(subscribed), id \in Pushes :
           (/\ id \notin Subscription(n).past
            /\ disp[Subscription(n).sink].active
            /\ ~Awaits(Subscription(n).sink, id)) =>
               id \in Got(Subscription(n).sink)

\* Two sinks received the first push in the order they subscribed; the
\* first was disposed and removed, and the second push went to the other
\* alone.
C27_Witness ==
    \E a, b \in Disposables :
        /\ Len(played) = 1
        /\ played[1].subscribers = << a, b >>
        /\ stack = << >>
        /\ ~disp[a].active
        /\ subject = << b >>
        /\ Got(a) = {PushAction(1, 1)}
        /\ Got(b) = {PushAction(1, 1), PushAction(1, 2)}

\* The sinks that subscribed while the push on top was forwarding.
Latecomers ==
    { Subscription(n).sink : n \in { m \in 1 .. Len(subscribed) :
                                        Top.id \in Subscription(m).past } }

\* C28: a push forwards over the subscribers the Subject had when it began.
\* A sink that subscribes while the push is forwarding joins the Subject but
\* not the sinks the push has still to reach, and is not handed the event in
\* any later step of the push; every push that begins after it subscribed
\* reaches it as long as it is active.
C28_Snapshot ==
    /\ [](Forwarding =>
            \A s \in Latecomers :
                s \notin Range(Top.rest) /\ Top.id \notin Got(s))
    /\ [][Forwarding =>
            \A s \in Latecomers : Top.id \notin { received'[s][i].id :
                                                 i \in 1 .. Len(received'[s]) }]_vars
    /\ [][\A s \in Disposables :
            (Forwarding /\ SharedSubscribe(s)) =>
                /\ stack' = stack
                /\ received' = received
                /\ disp[s].active => subject' = Append(subject, s)]_vars
    /\ [](\A n \in 1 .. Len(subscribed), id \in Pushes :
            (/\ Subscription(n).past # {}
             /\ id \notin Subscription(n).past
             /\ disp[Subscription(n).sink].active
             /\ ~Awaits(Subscription(n).sink, id)) =>
                id \in Got(Subscription(n).sink))

\* A sink subscribed from the callback of another while the first push was
\* forwarding; the first push is over and the second is forwarding and has
\* reached the newcomer, which has received the second only.
C28_Witness ==
    \E n, m \in 1 .. Len(subscribed) :
        /\ Len(played) = 1
        /\ Forwarding
        /\ Top.id = PushAction(1, 2)
        /\ Top.rest = << >>
        /\ Subscription(n).past = {PushAction(1, 1)}
        /\ Subscription(n).frame = received[Subscription(m).sink][1].frame
        /\ Got(Subscription(n).sink) = {PushAction(1, 2)}
        /\ Got(Subscription(m).sink) = {PushAction(1, 1), PushAction(1, 2)}
        /\ subject = << Subscription(m).sink, Subscription(n).sink >>

\* The queued actions whose executionFrame is at most `frame'.
UpTo(frame) ==
    { i \in 1 .. Len(actions) : actions[i].executionFrame <= frame }

\* C29: on a sorted queue, for every frame, getActionInsertIndex returns the
\* number of queued actions whose executionFrame is at most that frame: 0
\* below all of them, the length of the queue from the largest onwards, the
\* place after the last of a run of equal frames; and the action a schedule
\* call inserts sits at that place.
C29_InsertIndex ==
    /\ [](\A frame \in 0 .. MaxDelay + 3 :
            getActionInsertIndex(actions, frame) = Cardinality(UpTo(frame)))
    /\ [][\A delayFrames \in Frames :
            Schedule(delayFrames, NoSub) =>
                /\ Len(actions') = Len(actions) + 1
                /\ actions'[Cardinality(UpTo(delayFrames)) + 1].id = nextId]_vars

\* A queue with a run of three equal frames between a smaller and a larger
\* one, and a fourth action of that frame inserted after the run.
C29_Witness ==
    /\ Len(actions) = 6
    /\ [i \in 1 .. 6 |-> actions[i].executionFrame] = << 0, 1, 1, 1, 1, 2 >>
    /\ actions[5].id = 6
    /\ getActionInsertIndex(actions, 1) = 5

\* C30: in every reachable state the queue is sorted by executionFrame,
\* ascending, and actions of the same executionFrame stand in the order in
\* which they were scheduled.
C30_QueueSorted ==
    \A i, j \in 1 .. Len(actions) :
        i < j =>
            /\ actions[i].executionFrame <= actions[j].executionFrame
            /\ actions[i].executionFrame = actions[j].executionFrame =>
                   actions[i].id < actions[j].id

\* After a flush, the queue holds two actions of the same frame behind one
\* that was scheduled after them, one of the three cancelled.
C30_Witness ==
    /\ Len(actions) = 3
    /\ actions[1].id > actions[3].id
    /\ actions[1].id > actions[2].id
    /\ actions[2].executionFrame = actions[3].executionFrame
    /\ \E i \in 1 .. 3 : ~actions[i].shouldCall
    /\ lastFlush # "none"

\* C31: a disposal leaves the queue with the same actions at the same
\* places, the ones it cancels with shouldCall false and the others as they
\* were; and when flush() shifts a cancelled action, the action is skipped:
\* no callback starts, nothing is delivered, only currentFrame moves.
C31_CancelKeepsQueue ==
    /\ [][\A d \in Disposables :
            Dispose(d) =>
                /\ Len(actions') = Len(actions)
                /\ \A i \in 1 .. Len(actions) :
                       actions'[i] =
                           IF actions[i].id \in Cancels(d)
                           THEN [actions[i] EXCEPT !.shouldCall = FALSE]
                           ELSE actions[i]]_vars
    /\ [][(FlushShift /\ Head(actions).id \in cancelled) =>
            /\ fate'[Head(actions).id] = "skipped"
            /\ actions' = Tail(actions)
            /\ stack' = stack
            /\ received' = received]_vars

\* A disposal cancelled the second of three queued actions; the first was
\* invoked, the second has been shifted and skipped, the third is queued.
C31_Witness ==
    /\ stack # << >>
    /\ ~last.called
    /\ last.id \in cancelled
    /\ fate[last.id] = "skipped"
    /\ prev.called /\ prev.id # 0
    /\ Len(actions) = 1
    /\ actions[1].shouldCall

\* The place of the action in the queue after the step, 0 if it is not there.
PlaceAfter(id) ==
    IF \E i \in 1 .. Len(actions') : actions'[i].id = id
    THEN CHOOSE i \in 1 .. Len(actions') : actions'[i].id = id
    ELSE 0

\* C32: a schedule call that is not refused, made at top level or from a
\* callback, queues one action whose executionFrame is currentFrame at the
\* call plus delayFrames, behind every queued action of that frame or an
\* earlier one and before every action of a later frame (with delay 0 in a
\* callback: behind what is queued for the running frame); and flush() runs
\* each action with currentFrame set to its executionFrame.
C32_ExecutionFrame ==
    /\ [][\A delayFrames \in Delays, sub \in Subscriptions :
            (Schedule(delayFrames, sub) /\ ~Refused(disp, sub)) =>
                LET at == PlaceAfter(nextId)
                IN  /\ at > 0
                    /\ Len(actions') = Len(actions) + 1
                    /\ actions'[at].executionFrame = currentFrame + delayFrames
                    /\ \A i \in 1 .. Len(actions') :
                           /\ i < at => actions'[i].executionFrame
                                            <= currentFrame + delayFrames
                           /\ i > at => actions'[i].executionFrame
                                            > currentFrame + delayFrames]_vars
    /\ [][FlushShift =>
            /\ currentFrame' = Head(actions).executionFrame
            /\ last'.frame = Head(actions).executionFrame]_vars

\* In the first flush of the run, a callback running at frame MaxDelay
\* scheduled an action with delay MaxDelay, and the same flush is running
\* that action at frame MaxDelay + MaxDelay.
C32_Witness ==
    /\ lastFlush = "none"
    /\ stack # << >>
    /\ Top.pc = "cb"
    /\ last.called
    /\ fate[last.id] = "invoked"
    /\ last.frame = MaxDelay + MaxDelay
    /\ currentFrame = last.frame
    /\ prev.frame = MaxDelay

Queue == { actions[i].id : i \in 1 .. Len(actions) }

\* C33: when no callback raises and every callback returns, every flush()
\* that entered its loop returns; the step in which it returns leaves the
\* queue empty and the guard clear; flush() shifts only queued actions and
\* invokes each that was not cancelled, an invoked action is never queued
\* or invoked again; so with the queue empty every action that was scheduled
\* has been invoked once, or was skipped as cancelled, or was discarded by
\* a reset().
C33_FlushTerminates ==
    /\ (stack # << >>) ~> (stack = << >>)
    /\ [][FlushReturn => actions' = << >> /\ isFlushing' = FALSE]_vars
    /\ [][FlushShift =>
            LET id == Head(actions).id
            IN  /\ fate[id] = "queued"
                /\ id \notin Queue'
                /\ fate'[id] = IF id \in cancelled THEN "skipped"
                               ELSE "invoked"]_vars
    /\ [][\A id \in DOMAIN fate :
            fate[id] \in {"invoked", "skipped"} =>
                fate'[id] = fate[id] /\ id \notin Queue']_vars
    /\ [](\A id \in DOMAIN fate :
            /\ fate[id] = "queued" <=> id \in Queue
            /\ (actions = << >> /\ id < nextId) =>
                   \/ fate[id] = "invoked"
                   \/ fate[id] = "skipped" /\ id \in cancelled
                   \/ fate[id] \in {"refused", "dropped"})

\* A flush() called by the test body has returned: it invoked an action and
\* the action its callback scheduled, skipped a cancelled one, and left the
\* queue empty and the guard clear.
C33_Witness ==
    /\ stack = << >>
    /\ lastFlush = "returned"
    /\ actions = << >>
    /\ ~isFlushing
    /\ currentFrame = MaxDelay + MaxDelay
    /\ \E a, b, c \in DOMAIN fate :
           /\ a < b
           /\ fate[a] = "invoked" /\ fate[b] = "invoked"
           /\ fate[c] = "skipped" /\ c \in cancelled

\* C34: no step but reset() and the catch of a raising callback lowers
\* currentFrame; and a callback of a flush during which reset() was not
\* called and nothing raised runs with currentFrame equal to the
\* executionFrame of its own action.
C34_FrameMonotone ==
    /\ [][(reset \/ CallbackRaise) \/ currentFrame' >= currentFrame]_vars
    /\ []((stack # << >> /\ CanAct /\ ~Top.reset) =>
             /\ last.called
             /\ last.id = Top.id
             /\ currentFrame = last.frame)

\* A flush that saw no reset() is running a callback at frame MaxDelay
\* after one at frame 0 and a skipped one.
C34_Witness ==
    /\ stack # << >>
    /\ CanAct
    /\ ~Top.reset
    /\ currentFrame = MaxDelay
    /\ prev.called /\ prev.id # 0 /\ prev.frame = 0
    /\ \E id \in cancelled : fate[id] = "skipped"

\* C35: the catch of a raising callback leaves the guard clear, the queue
\* empty and currentFrame 0; the guard is clear whenever no flush() is
\* running, so a flush() the test body calls is never swallowed as a nested
\* call; and the first action the flush after a throw invokes runs at the
\* frame that is its delay counted from 0.
C35_FlushAfterRaise ==
    /\ [][CallbackRaise =>
            ~isFlushing' /\ currentFrame' = 0 /\ actions' = << >>]_vars
    /\ [](stack = << >> => ~isFlushing)
    /\ [][(stack = << >> /\ flush) =>
            stack' = << Activation >> /\ lastFlush' = lastFlush]_vars
    /\ []((/\ lastFlush = "threw"
           /\ Len(stack) = 1
           /\ CanAct
           /\ ~Top.reset
           /\ prev.id = 0) =>
              /\ last.called
              /\ currentFrame = last.frame
              /\ currentFrame <= MaxDelay)

\* A flush() threw and left an action uninvoked; an action scheduled
\* afterwards with delay MaxDelay is being invoked by the next flush(), at
\* frame MaxDelay.
C35_Witness ==
    /\ lastFlush = "threw"
    /\ Len(stack) = 1
    /\ CanAct
    /\ ~Top.reset
    /\ prev.id = 0
    /\ last.called
    /\ currentFrame = MaxDelay
    /\ fate[last.id] = "invoked"
    /\ \E id \in DOMAIN fate : fate[id] = "dropped"

WatchEnd == Plus(Watched.frame, EndDelay(InfoOf(Watched.arg, Watched.frame)))

\* C37: the window of watchSourceEvents is half-open.  Every recorded event
\* has a frame below the frame at which the subscription is disposed; an
\* event of the timeline whose delivery falls on that frame or later is
\* never delivered; and in the queue the disposing action stands before
\* every event action of the watcher of the same executionFrame.
C37_HalfOpenWindow ==
    watching # << >> =>
        /\ \A i \in 1 .. Len(recorded) : recorded[i].frame < WatchEnd
        /\ \A n \in WatcherSubscriptions : \A k \in 1 .. Len(events) :
               Offset(Subscription(n), k) >= WatchEnd =>
                   fate[EventAction(Subscription(n), k)] \notin Ran
        /\ \A i, j \in 1 .. Len(actions) :
               (/\ actions[i].callback.kind = "watchEnd"
                /\ actions[j].callback.kind = "emit"
                /\ actions[j].callback.sink = Watcher
                /\ actions[i].executionFrame = actions[j].executionFrame) =>
                   i < j

\* The watcher recorded an event before the end of its window and was
\* disposed at the frame on which another event of the timeline fell due:
\* that event was shifted at that frame and skipped.
C37_Witness ==
    /\ watching # << >>
    /\ ~disp[Watcher].active
    /\ Len(recorded) = 1
    /\ \E n \in WatcherSubscriptions : \E k \in 1 .. Len(events) :
           /\ Offset(Subscription(n), k) = WatchEnd
           /\ fate[EventAction(Subscription(n), k)] = "skipped"
           /\ currentFrame = WatchEnd

\* C38: watchSourceEvents called at frame 0 with TestSubscriptionInfo(S, E)
\* on a TestSource nothing else subscribes to: once the queue has been
\* flushed empty, the subscriptions list of the source is exactly
\* [TestSubscriptionInfo(S, E)]; before that it is empty or holds the one
\* subscription, started at S and not ended.
C38_InfoRoundTrip ==
    (watching # << >> /\ Watched.frame = 0 /\ ~Watched.arg.omitted) =>
        LET S == Watched.arg.subscriptionStartFrame
            E == Watched.arg.subscriptionEndFrame
        IN  /\ subscriptions \in
                   { << >>,
                     << [subscriptionStartFrame |-> S,
                         subscriptionEndFrame |-> Infinity] >>,
                     << [subscriptionStartFrame |-> S,
                         subscriptionEndFrame |-> E] >> }
            /\ (actions = << >> /\ stack = << >>) =>
                   subscriptions = << [subscriptionStartFrame |-> S,
                                       subscriptionEndFrame |-> E] >>

\* watchSourceEvents was called at frame 0 with TestSubscriptionInfo(1, 2)
\* and the queue flushed: the source lists TestSubscriptionInfo(1, 2).
C38_Witness ==
    /\ watching # << >>
    /\ Watched.frame = 0
    /\ Watched.arg = [omitted |-> FALSE, subscriptionStartFrame |-> 1,
                       subscriptionEndFrame |-> 2]
    /\ actions = << >>
    /\ stack = << >>
    /\ lastFlush = "returned"
    /\ subscriptions = << [subscriptionStartFrame |-> 1,
                           subscriptionEndFrame |-> 2] >>

\* The pushes of the schedule() calls that were given subscription d.
PushesOf(d) ==
    { PushAction(c, k) : c \in { n \in 1 .. Len(played) : played[n].sub = d },
                         k \in 1 .. Len(events) }

\* What the sink has received after the step.
GotAfter(sink) == { received'[sink][i].id : i \in 1 .. Len(received'[sink]) }

\* C39: the disposal of the subscription given to schedule() cancels every
\* push of that call still queued, leaving it in the queue with shouldCall
\* false; a cancelled push is never invoked and reaches no subscriber; once
\* the subscription is inactive no sink receives an event of that call other
\* than the one a push already in progress is forwarding; and what a sink
\* has received stays received.
C39_PlaybackCancelled ==
    /\ [][Dispose("d1") =>
            \A id \in PushesOf("d1") :
                fate[id] = "queued" =>
                    /\ id \in cancelled'
                    /\ \E i \in 1 .. Len(actions') :
                           actions'[i].id = id /\ ~actions'[i].shouldCall]_vars
    /\ [](\A id \in PushesOf("d1") \cap cancelled :
            /\ fate[id] \in {"queued", "skipped"}
            /\ \A s \in Disposables : id \notin Got(s))
    /\ [][~disp["d1"].active =>
            \A s \in Disposables : \A id \in PushesOf("d1") :
                (id \in GotAfter(s) /\ id \notin Got(s)) =>
                    Forwarding /\ Top.id = id]_vars
    /\ [][\A s \in Disposables :
            /\ Len(received'[s]) >= Len(received[s])
            /\ SubSeq(received'[s], 1, Len(received[s])) = received[s]]_vars

\* schedule(d1) was called with d2 subscribed; the first push reached d2,
\* whose callback disposed d1; the second push was shifted and skipped.
C39_Witness ==
    \E c \in 1 .. Len(played) :
        /\ played[c].sub = "d1"
        /\ ~disp["d1"].active
        /\ disp["d2"].active
        /\ fate[PushAction(c, 1)] = "invoked"
        /\ fate[PushAction(c, 2)] = "skipped"
        /\ PushAction(c, 2) \in cancelled
        /\ Got("d2") = {PushAction(c, 1)}

\* C40: the disposal of a subscriber leaves every queued action that was
\* not scheduled with that Disposable as its subscription as it is, at its
\* place, takes no other sink out of the Subject and changes nothing another
\* sink has received; and every push that is invoked reaches every sink that
\* subscribed before it began and is still active, as that event at the
\* frame it was scheduled for.
C40_OtherSubscribers ==
    /\ [][\A s \in Disposables :
            Dispose(s) =>
                /\ Len(actions') = Len(actions)
                /\ \A i \in 1 .. Len(actions) :
                       actions[i].id \notin PushesOf(s) =>
                           actions'[i] = actions[i]
                /\ \A t \in Disposables \ {s} :
                       /\ received'[t] = received[t]
                       /\ t \in Range(subject) => t \in Range(subject')
                /\ s \notin Range(subject')]_vars
    /\ [](\A n \in 1 .. Len(subscribed), c \in 1 .. Len(played) :
            \A k \in 1 .. Len(events) :
                LET t == Subscription(n).sink
                    id == PushAction(c, k)
                IN  (/\ fate[id] = "invoked"
                     /\ id \notin Subscription(n).past
                     /\ disp[t].active
                     /\ ~Awaits(t, id)) =>
                        [id |-> id, ev |-> k,
                         frame |-> played[c].frame + events[k].frame]
                            \in Range(received[t]))

\* d1 and d2 were subscribed when schedule() was called without a
\* subscription; both received the first push, d1 was disposed, and the
\* second push, not cancelled, reached d2 at its scheduled frame.
C40_Witness ==
    /\ Len(played) = 1
    /\ played[1].sub = NoSub
    /\ played[1].subscribers = << "d1", "d2" >>
    /\ ~disp["d1"].active
    /\ disp["d2"].active
    /\ fate[PushAction(1, 2)] = "invoked"
    /\ PushAction(1, 2) \notin cancelled
    /\ Got("d1") = {PushAction(1, 1)}
    /\ Len(received["d2"]) = 2
    /\ received["d2"][2] = [id |-> PushAction(1, 2), ev |-> 2,
                            frame |-> played[1].frame + events[2].frame]

\* C40 as stated: the disposal of any subscriber leaves every queued push
\* as it is. It fails when the subscriber disposed is the Disposable that
\* schedule() was given as its subscription.
C40_PushesStay ==
    [][\A s \in Range(subject) : Dispose(s) => actions' = actions]_vars

====
